---- MODULE Spec2Model ----
(***************************************************************************)
(* A model of Tungsten's TriangleMesh primitive                            *)
(* (src/core/primitives/Mesh.hpp): its construction, the render lifecycle  *)
(* (prepareForRender / cleanupAfterRender / makeSamplable), mutation of    *)
(* the geometry through the verts()/tris() accessors, and the const query  *)
(* operations called by transport threads.                                 *)
(*                                                                         *)
(* Conventions of the model                                                *)
(*  - Arithmetic is exact integer arithmetic; float rounding is not        *)
(*    modelled.  NaN and division by zero are modelled explicitly.         *)
(*  - Meshes lie in the plane z = 0, so every triangle normal is parallel  *)
(*    to the z axis and normalisation is exact.                            *)
(*  - Areas are stored doubled (2 * area) so that they stay integers.      *)
(*  - A unit direction d = L / |L| is represented by its integer step L;   *)
(*    distances along a ray are measured in units of |L|.                  *)
(*  - A pdf value is the record [kind, num, den, unit, scale]: kind "fin"  *)
(*    means num / den times sqrt(unit) (scale "sqrt") or times 1/pi        *)
(*    (scale "invpi"); "nan" and "inf" are the float specials.             *)
(*  - A read outside a vector's size is undefined behaviour: the model     *)
(*    branches between a crash and a read of arbitrary memory contents.    *)
(***************************************************************************)
EXTENDS Integers, Sequences, FiniteSets, TLC

(* ------------------------------ bounds -------------------------------- *)

\* Longest vertex array.
MaxVerts == 3

\* Longest triangle array.
MaxTris == 2

\* Number of acceleration structures the oracle can hand out in one run.
MaxHandles == 2

\* Number of mutations through verts()/tris()/setTransform in one run.
MaxEdits == 2

\* Largest transform scale factor.
MaxScale == 2

\* Largest ray distance, in units of the ray's step length.
MaxT == 3

\* nullptr (Mesh.hpp:58-59).
Null == 0

\* The value of a float member that no constructor initialises (Mesh.hpp:54).
Indeterminate == -1

MeshIds == {1, 2}

Threads == {1, 2}

(* --------------------------- vector algebra --------------------------- *)

Abs(x) == IF x < 0 THEN -x ELSE x

Sgn(x) == IF x < 0 THEN -1 ELSE IF x > 0 THEN 1 ELSE 0

Min2(a, b) == IF a < b THEN a ELSE b

Max2(a, b) == IF a < b THEN b ELSE a

Add(a, b) == <<a[1] + b[1], a[2] + b[2], a[3] + b[3]>>

Sub(a, b) == <<a[1] - b[1], a[2] - b[2], a[3] - b[3]>>

Scale(k, a) == <<k * a[1], k * a[2], k * a[3]>>

Dot(a, b) == a[1] * b[1] + a[2] * b[2] + a[3] * b[3]

Cross(a, b) ==
    <<a[2] * b[3] - a[3] * b[2], a[3] * b[1] - a[1] * b[3], a[1] * b[2] - a[2] * b[1]>>

LengthSq(a) == Dot(a, a)

\* Length of a vector parallel to a coordinate axis.
AxisLength(a) == Abs(a[1]) + Abs(a[2]) + Abs(a[3])

\* Vec3f that may be NaN.
NaNVec == [nan |-> TRUE, v |-> <<0, 0, 0>>]

Fin(a) == [nan |-> FALSE, v |-> a]

\* Vec3f::normalized() of an axis-parallel vector: 0/0 is NaN.
Normalized(a) ==
    IF a = <<0, 0, 0>> THEN NaNVec ELSE Fin(<<Sgn(a[1]), Sgn(a[2]), Sgn(a[3])>>)

(* ------------------------------ geometry ------------------------------ *)

PosPool == {<<0, 0, 0>>, <<1, 0, 0>>, <<0, 1, 0>>}

\* Vertex(pos, normal, uv).
Vertex(p) == [pos |-> p, normal |-> [num |-> <<0, 0, 1>>, den |-> 1], uv |-> <<p[1], p[2]>>]

VertexPool == {Vertex(p) : p \in PosPool}

\* TriangleI(v0, v1, v2): counter-clockwise, clockwise, degenerate.
TriPool == {<<0, 1, 2>>, <<0, 2, 1>>, <<0, 0, 0>>}

TriIndices(tris) == UNION {{tris[i][1], tris[i][2], tris[i][3]} : i \in 1..Len(tris)}

\* MathUtil::triangleArea, doubled: |cross(p1 - p0, p2 - p0)|.
TriangleArea2(p0, p1, p2) == AxisLength(Cross(Sub(p1, p0), Sub(p2, p0)))

\* _transform * pos for a uniform scale.
TransformPoint(s, p) == Scale(s, p)

\* toNormalMatrix().transformVector(n): the inverse transpose of a uniform
\* scale s divides by s; the result is not renormalised.
TransformNormal(s, n) == [num |-> n.num, den |-> n.den * s]

TransformVertex(s, vtx) ==
    [pos |-> TransformPoint(s, vtx.pos), normal |-> TransformNormal(s, vtx.normal), uv |-> vtx.uv]

\* Box3f: empty, or the corners of the box.
EmptyBox == [empty |-> TRUE, lo |-> <<0, 0, 0>>, hi |-> <<0, 0, 0>>]

RECURSIVE BoxOf(_)
BoxOf(verts) ==
    IF verts = <<>> THEN EmptyBox
    ELSE LET b == BoxOf(Tail(verts))
             p == Head(verts).pos
         IN  IF b.empty THEN [empty |-> FALSE, lo |-> p, hi |-> p]
             ELSE [empty |-> FALSE,
                   lo |-> <<Min2(p[1], b.lo[1]), Min2(p[2], b.lo[2]), Min2(p[3], b.lo[3])>>,
                   hi |-> <<Max2(p[1], b.hi[1]), Max2(p[2], b.hi[2]), Max2(p[3], b.hi[3])>>]

\* computeBounds(): object-space bounds of _verts.
ComputeBounds(verts) == BoxOf(verts)

(* ------------------- reads of the transformed cache ------------------- *)

\* Indices of `need` that lie outside a vector of `size` entries.
OutOfRange(size, need) == {i \in need : i >= size}

\* What the memory behind out-of-range entries may hold: arbitrary
\* contents, represented by one pool vertex repeated.
GarbageReads(size, need) == {[i \in OutOfRange(size, need) |-> v] : v \in VertexPool}

\* _tfVerts[i] (0-based); g gives the memory read when i is out of range.
TfAt(tf, g, i) == IF i < Len(tf) THEN tf[i + 1] ELSE g[i]

\* triangleArea of triangle t over the transformed cache.
AreaOf(t, tf, g) == TriangleArea2(TfAt(tf, g, t[1]).pos, TfAt(tf, g, t[2]).pos, TfAt(tf, g, t[3]).pos)

\* std::vector<float> areas, one per triangle.
Areas(tris, tf, g) == [i \in 1..Len(tris) |-> AreaOf(tris[i], tf, g)]

RECURSIVE SumSeq(_)
SumSeq(s) == IF s = <<>> THEN 0 ELSE Head(s) + SumSeq(Tail(s))

(* ------------------------------- objects ------------------------------ *)

\* std::unique_ptr<Distribution1D>.
NullSampler == [present |-> FALSE, weights |-> <<>>]

Distribution1D(areas) == [present |-> TRUE, weights |-> areas]

\* No object at this id.
NoMesh ==
    [alive |-> FALSE, path |-> <<>>, dirty |-> FALSE, smoothed |-> FALSE,
     verts |-> <<>>, tfVerts |-> <<>>, tris |-> <<>>,
     triSampler |-> NullSampler, totalArea |-> Indeterminate, bounds |-> EmptyBox,
     geom |-> Null, intersector |-> Null, transform |-> 1, prepared |-> FALSE]

\* TriangleMesh().
DefaultCtor == [NoMesh EXCEPT !.alive = TRUE]

\* TriangleMesh(verts, tris, bsdf, name, smoothed).
Ctor(verts, tris, name, smoothed) ==
    [NoMesh EXCEPT !.alive = TRUE, !.path = <<name, ".wo3">>, !.dirty = TRUE,
                   !.smoothed = smoothed, !.verts = verts, !.tris = tris]

\* A member-by-member copy, as a defaulted copy constructor would make.
MemberwiseCopy(o) == [o EXCEPT !.dirty = TRUE]

\* TriangleMesh(const TriangleMesh &o).
CopyCtor(o) ==
    [NoMesh EXCEPT !.alive = TRUE, !.path = o.path, !.dirty = TRUE,
                   !.smoothed = o.smoothed, !.verts = o.verts, !.tris = o.tris,
                   !.bounds = o.bounds, !.transform = o.transform]

V0 == Vertex(<<0, 0, 0>>)

V1 == Vertex(<<1, 0, 0>>)

V2 == Vertex(<<0, 1, 0>>)

\* The caller-supplied arrays the constructor is run on.
CtorInputs ==
    { <<(<<V0, V1, V2>>), (<< <<0, 1, 2>> >>)>>,
      <<(<<V0, V1, V2>>), (<< <<0, 1, 2>>, <<0, 2, 1>> >>)>>,
      <<(<<V0, V1, V2>>), (<< <<0, 0, 0>> >>)>>,
      <<(<<V0, V1>>), (<< <<0, 1, 2>> >>)>> }

(* -------------------------------- state ------------------------------- *)

VARIABLES
    mesh,      \* mesh[m]: the TriangleMesh object m
    accel,     \* accel[h]: the oracle's geometry h (owner 0: not allocated)
    edits,     \* mutations made so far
    fault,     \* "none", or how the process died
    ray,       \* ray[t]: the Ray thread t is tracing
    data,      \* data[t]: thread t's IntersectionTemporary
    sample,    \* sample[t]: thread t's LightSample
    out        \* out[t]: what thread t's last query returned

vars == <<mesh, accel, edits, fault, ray, data, sample, out>>

locals == <<ray, data, sample, out>>

Handles == 1..MaxHandles

NoAccel == [owner |-> 0, deleted |-> 0, tris |-> <<>>, verts |-> <<>>]

\* A thread that holds no ray yet.
NoRay == [org |-> <<0, 0, 0>>, step |-> <<0, 0, 0>>, farT |-> 0]

\* An IntersectionTemporary no intersect call has filled.
NoData ==
    [primitive |-> 0, Ng |-> <<0, 0, 0>>, p |-> <<0, 0, 0>>, u |-> 0, v |-> 0,
     id0 |-> 0, id1 |-> 0, backSide |-> FALSE]

NoPdf == [kind |-> "unset", num |-> 0, den |-> 1, unit |-> 1, scale |-> "sqrt"]

\* A LightSample no sampling call has written.
NoSample ==
    [p |-> <<0, 0, 0>>, d |-> NaNVec, distSq |-> 0, pdf |-> NoPdf,
     op |-> "none", ok |-> FALSE, tri |-> 0, cos |-> [nan |-> TRUE, c |-> 0], area |-> 0]

NoOut == [op |-> "none", val |-> FALSE]

Init ==
    /\ \E m1 \in {DefaultCtor} \cup
                 {Ctor(in[1], in[2], "mesh", s) : in \in CtorInputs, s \in BOOLEAN} :
           mesh = [m \in MeshIds |-> IF m = 1 THEN m1 ELSE NoMesh]
    /\ accel = [h \in Handles |-> NoAccel]
    /\ edits = 0
    /\ fault = "none"
    /\ ray = [t \in Threads |-> NoRay]
    /\ data = [t \in Threads |-> NoData]
    /\ sample = [t \in Threads |-> NoSample]
    /\ out = [t \in Threads |-> NoOut]

Running == fault = "none"

(* ------------------------------ lifecycle ----------------------------- *)

\* embree::rtcNewTriangleMesh: the next geometry the oracle hands out.
FreshHandle == CHOOSE h \in Handles : accel[h].owner = 0 /\ \A k \in Handles : accel[k].owner = 0 => h <= k

\* The mesh after prepareForRender, reading g where an index is out of range.
Prepared(o, h, g) ==
    LET tf == [i \in 1..Len(o.verts) |-> TransformVertex(o.transform, o.verts[i])]
    IN  [o EXCEPT !.bounds = ComputeBounds(o.verts),
                  !.geom = h,
                  !.tfVerts = tf,
                  !.totalArea = SumSeq(Areas(o.tris, tf, g)),
                  !.intersector = h,
                  !.prepared = TRUE]

\* prepareForRender().
PrepareForRender(m) ==
    /\ Running
    /\ mesh[m].alive
    /\ \E h \in Handles : accel[h].owner = 0
    /\ LET o == mesh[m]
           h == FreshHandle
           bad == OutOfRange(Len(o.verts), TriIndices(o.tris))
       IN  \/ /\ \E g \in GarbageReads(Len(o.verts), TriIndices(o.tris)) :
                    mesh' = [mesh EXCEPT ![m] = Prepared(o, h, g)]
              /\ accel' = [accel EXCEPT ![h] =
                    [owner |-> m, deleted |-> 0, tris |-> o.tris,
                     verts |-> [i \in 1..Len(o.verts) |-> TransformPoint(o.transform, o.verts[i].pos)]]]
              /\ UNCHANGED <<edits, fault, locals>>
           \/ /\ bad # {}
              /\ fault' = "segfault"
              /\ UNCHANGED <<mesh, accel, edits, locals>>

\* cleanupAfterRender().
CleanupAfterRender(m) ==
    /\ Running
    /\ mesh[m].alive
    /\ LET o == mesh[m]
       IN  /\ accel' = IF o.geom # Null
                       THEN [accel EXCEPT ![o.geom].deleted = @ + 1]
                       ELSE accel
           /\ mesh' = [mesh EXCEPT ![m] =
                 [o EXCEPT !.geom = Null, !.intersector = Null, !.tfVerts = <<>>,
                           !.prepared = FALSE]]
    /\ UNCHANGED <<edits, fault, locals>>

\* makeSamplable().
MakeSamplable(m) ==
    /\ Running
    /\ mesh[m].alive
    /\ LET o == mesh[m]
           bad == OutOfRange(Len(o.tfVerts), TriIndices(o.tris))
       IN  \/ /\ \E g \in GarbageReads(Len(o.tfVerts), TriIndices(o.tris)) :
                    LET areas == Areas(o.tris, o.tfVerts, g)
                    IN  mesh' = [mesh EXCEPT ![m] =
                           [o EXCEPT !.totalArea = SumSeq(areas),
                                     !.triSampler = Distribution1D(areas)]]
              /\ UNCHANGED <<accel, edits, fault, locals>>
           \/ /\ bad # {}
              /\ fault' = "segfault"
              /\ UNCHANGED <<mesh, accel, edits, locals>>

(* ----------------- mutation through verts() and tris() ---------------- *)

\* verts().push_back(v).
VertsPushBack(m, v) ==
    /\ Running /\ mesh[m].alive /\ edits < MaxEdits
    /\ Len(mesh[m].verts) < MaxVerts
    /\ mesh' = [mesh EXCEPT ![m].verts = Append(@, v)]
    /\ edits' = edits + 1
    /\ UNCHANGED <<accel, fault, locals>>

\* verts().pop_back().
VertsPopBack(m) ==
    /\ Running /\ mesh[m].alive /\ edits < MaxEdits
    /\ mesh[m].verts # <<>>
    /\ mesh' = [mesh EXCEPT ![m].verts = SubSeq(@, 1, Len(@) - 1)]
    /\ edits' = edits + 1
    /\ UNCHANGED <<accel, fault, locals>>

\* verts()[i] = v.
VertsAssign(m, i, v) ==
    /\ Running /\ mesh[m].alive /\ edits < MaxEdits
    /\ i \in 1..Len(mesh[m].verts)
    /\ mesh[m].verts[i] # v
    /\ mesh' = [mesh EXCEPT ![m].verts[i] = v]
    /\ edits' = edits + 1
    /\ UNCHANGED <<accel, fault, locals>>

\* tris().push_back(t).
TrisPushBack(m, t) ==
    /\ Running /\ mesh[m].alive /\ edits < MaxEdits
    /\ Len(mesh[m].tris) < MaxTris
    /\ mesh' = [mesh EXCEPT ![m].tris = Append(@, t)]
    /\ edits' = edits + 1
    /\ UNCHANGED <<accel, fault, locals>>

\* tris().pop_back().
TrisPopBack(m) ==
    /\ Running /\ mesh[m].alive /\ edits < MaxEdits
    /\ mesh[m].tris # <<>>
    /\ mesh' = [mesh EXCEPT ![m].tris = SubSeq(@, 1, Len(@) - 1)]
    /\ edits' = edits + 1
    /\ UNCHANGED <<accel, fault, locals>>

\* Primitive::setTransform(s).
SetTransform(m, s) ==
    /\ Running /\ mesh[m].alive /\ edits < MaxEdits
    /\ mesh[m].transform # s
    /\ mesh' = [mesh EXCEPT ![m].transform = s]
    /\ edits' = edits + 1
    /\ UNCHANGED <<accel, fault, locals>>

(* --------------------------- copy and flags --------------------------- *)

\* clone(): new TriangleMesh(*this), placed at the free id d.
Clone(src, d) ==
    /\ Running
    /\ mesh[src].alive /\ ~mesh[d].alive
    /\ mesh' = [mesh EXCEPT ![d] = CopyCtor(mesh[src])]
    /\ UNCHANGED <<accel, edits, fault, locals>>

\* setSmoothed(v).
SetSmoothed(m, b) ==
    /\ Running /\ mesh[m].alive
    /\ mesh[m].smoothed # b
    /\ mesh' = [mesh EXCEPT ![m].smoothed = b]
    /\ UNCHANGED <<accel, edits, fault, locals>>

\* markDirty().
MarkDirty(m) ==
    /\ Running /\ mesh[m].alive
    /\ ~mesh[m].dirty
    /\ mesh' = [mesh EXCEPT ![m].dirty = TRUE]
    /\ UNCHANGED <<accel, edits, fault, locals>>

(* ------------------------- the geometric oracle ----------------------- *)

\* The oracle reports no hit.
Miss == [hit |-> FALSE, tfar |-> 0, id0 |-> 0, u |-> 0, v |-> 0]

\* What an embree::Ray can hold after _intersector->intersect(eRay).
Responses(tfars, barys) ==
    {Miss} \cup {[hit |-> TRUE, tfar |-> tf, id0 |-> i, u |-> b[1], v |-> b[2]] :
                    tf \in tfars, i \in 0..(MaxTris - 1), b \in barys}

\* The raw geometric normal the oracle reports for triangle id0 of geometry
\* h: the negation of cross(p1 - p0, p2 - p0), which intersectionInfo flips
\* back (info.Ng = -isect->Ng.normalized()).
OracleNg(h, id0) ==
    LET tri == accel[h].tris[id0 + 1]
        vs  == accel[h].verts
    IN  Scale(-1, Cross(Sub(vs[tri[2] + 1], vs[tri[1] + 1]), Sub(vs[tri[3] + 1], vs[tri[1] + 1])))

\* The oracle can report r for geometry h: a hit names a triangle of the
\* geometry that has in-range vertices and a non-zero area.
CanReport(h, r) ==
    r.hit =>
       /\ r.id0 < Len(accel[h].tris)
       /\ OutOfRange(Len(accel[h].verts), TriIndices(<<accel[h].tris[r.id0 + 1]>>)) = {}
       /\ OracleNg(h, r.id0) # <<0, 0, 0>>

(* ------------------------------- queries ------------------------------ *)

\* The caller sets up Ray(org, dir) towards `target` and a fresh
\* IntersectionTemporary.
NewRay(t, org, target) ==
    /\ Running
    /\ target # org
    /\ ray' = [ray EXCEPT ![t] = [org |-> org, step |-> Sub(target, org), farT |-> MaxT]]
    /\ data' = [data EXCEPT ![t] = NoData]
    /\ out' = [out EXCEPT ![t] = NoOut]
    /\ UNCHANGED <<mesh, accel, edits, fault, sample>>

\* The caller traces the ray from its sample's reference point along the
\* sampled direction.
ShadowRay(t) ==
    /\ Running
    /\ sample[t].op = "sampleInboundDirection" /\ sample[t].ok /\ ~sample[t].d.nan
    /\ ray[t] = NoRay
    /\ ray' = [ray EXCEPT ![t] = [org |-> sample[t].p, step |-> sample[t].d.v, farT |-> MaxT]]
    /\ data' = [data EXCEPT ![t] = NoData]
    /\ out' = [out EXCEPT ![t] = NoOut]
    /\ UNCHANGED <<mesh, accel, edits, fault, sample>>

\* The caller's frame ends: its ray, record, sample and result go away.
Return(t) ==
    /\ Running
    /\ <<ray[t], data[t], sample[t], out[t]>> # <<NoRay, NoData, NoSample, NoOut>>
    /\ ray' = [ray EXCEPT ![t] = NoRay]
    /\ data' = [data EXCEPT ![t] = NoData]
    /\ sample' = [sample EXCEPT ![t] = NoSample]
    /\ out' = [out EXCEPT ![t] = NoOut]
    /\ UNCHANGED <<mesh, accel, edits, fault>>

\* The process dies in thread t's call of op.
Segfault(t, op) ==
    /\ fault' = "segfault"
    /\ out' = [out EXCEPT ![t] = [op |-> op, val |-> FALSE]]
    /\ UNCHANGED <<mesh, accel, edits, ray, data, sample>>

\* The MeshIntersection intersect() fills from the oracle's ray.
Filled(m, r, eRay, Ng) ==
    [primitive |-> m, Ng |-> Ng, p |-> Add(r.org, Scale(eRay.tfar, r.step)),
     u |-> eRay.u, v |-> eRay.v, id0 |-> eRay.id0, id1 |-> 0,
     backSide |-> Dot(Ng, r.step) > 0]

\* A far-bound test that accepts every hit the oracle reports.
CloserLax(eRay, r) == eRay.hit

\* The test of a hit against the ray's far bound.
Closer(eRay, r) == eRay.hit /\ eRay.tfar < r.farT

\* An intersect() that keeps its record in one place shared by all callers.
IntersectShared(t, m, eRay) ==
    /\ Running /\ mesh[m].alive
    /\ ray[t].step # <<0, 0, 0>>
    /\ IF mesh[m].intersector = Null
       THEN Segfault(t, "intersect")
       ELSE /\ CanReport(mesh[m].intersector, eRay)
            /\ IF eRay.hit /\ eRay.tfar < ray[t].farT
               THEN /\ ray' = [ray EXCEPT ![t].farT = eRay.tfar]
                    /\ data' = [u \in Threads |->
                          Filled(m, ray[t], eRay, OracleNg(mesh[m].intersector, eRay.id0))]
                    /\ out' = [out EXCEPT ![t] = [op |-> "intersect", val |-> TRUE]]
               ELSE /\ out' = [out EXCEPT ![t] = [op |-> "intersect", val |-> FALSE]]
                    /\ UNCHANGED <<ray, data>>
            /\ UNCHANGED <<mesh, accel, edits, fault, sample>>

\* intersect(ray, data), the oracle answering eRay.
Intersect(t, m, eRay) ==
    /\ Running /\ mesh[m].alive
    /\ ray[t].step # <<0, 0, 0>>
    /\ IF mesh[m].intersector = Null
       THEN Segfault(t, "intersect")
       ELSE /\ CanReport(mesh[m].intersector, eRay)
            /\ IF Closer(eRay, ray[t])
               THEN /\ ray' = [ray EXCEPT ![t].farT = eRay.tfar]
                    /\ data' = [data EXCEPT ![t] =
                          Filled(m, ray[t], eRay, OracleNg(mesh[m].intersector, eRay.id0))]
                    /\ out' = [out EXCEPT ![t] = [op |-> "intersect", val |-> TRUE]]
               ELSE /\ out' = [out EXCEPT ![t] = [op |-> "intersect", val |-> FALSE]]
                    /\ UNCHANGED <<ray, data>>
            /\ UNCHANGED <<mesh, accel, edits, fault, sample>>

\* occluded(ray), the oracle answering b.
Occluded(t, m, b) ==
    /\ Running /\ mesh[m].alive
    /\ ray[t].step # <<0, 0, 0>>
    /\ IF mesh[m].intersector = Null
       THEN Segfault(t, "occluded")
       ELSE /\ b => accel[mesh[m].intersector].tris # <<>>
            /\ out' = [out EXCEPT ![t] = [op |-> "occluded", val |-> b]]
            /\ UNCHANGED <<mesh, accel, edits, fault, ray, data, sample>>

\* The triangles a read of _tris[id] can give: beyond the end, any memory.
TriAt(o, id) == IF id < Len(o.tris) THEN {o.tris[id + 1]} ELSE TriPool

\* The vertex triples a read of _tfVerts at _tris[id] can give.
TriReads(o, id) ==
    UNION {{<<TfAt(o.tfVerts, g, tri[1]), TfAt(o.tfVerts, g, tri[2]), TfAt(o.tfVerts, g, tri[3])>> :
               g \in GarbageReads(Len(o.tfVerts), {tri[1], tri[2], tri[3]})} : tri \in TriAt(o, id)}

\* The read of triangle id touches memory outside _tris or _tfVerts.
TriReadFaults(o, id) ==
    \/ id >= Len(o.tris)
    \/ OutOfRange(Len(o.tfVerts), TriIndices(<<o.tris[id + 1]>>)) # {}

\* ((1 - u - v)*a0 + u*a1 + v*a2) for per-vertex normals num/den, brought
\* to the common denominator den0*den1*den2 (positive), then normalized().
NormalAt(vs, u, v) ==
    LET n0 == vs[1].normal
        n1 == vs[2].normal
        n2 == vs[3].normal
    IN  Normalized(Add(Add(Scale((1 - u - v) * n1.den * n2.den, n0.num),
                           Scale(u * n0.den * n2.den, n1.num)),
                       Scale(v * n0.den * n1.den, n2.num)))

\* (1 - u - v)*uv0 + u*uv1 + v*uv2.
UvAt(vs, u, v) ==
    <<(1 - u - v) * vs[1].uv[1] + u * vs[2].uv[1] + v * vs[3].uv[1],
      (1 - u - v) * vs[1].uv[2] + u * vs[2].uv[2] + v * vs[3].uv[2]>>

\* The IntersectionInfo intersectionInfo() writes.
InfoOf(m, o, isect, vs) ==
    LET n  == Normalized(isect.Ng)
        Ng == [nan |-> n.nan, v |-> Scale(-1, n.v)]
    IN  [Ng |-> Ng,
         Ns |-> IF o.smoothed THEN NormalAt(vs, isect.u, isect.v) ELSE Ng,
         uv |-> UvAt(vs, isect.u, isect.v),
         primitive |-> m,
         p |-> isect.p]

\* intersectionInfo(data, info).
IntersectionInfo(t, m) ==
    /\ Running /\ mesh[m].alive
    /\ data[t].primitive = m
    /\ \/ /\ \E vs \in TriReads(mesh[m], data[t].id0) :
                out' = [out EXCEPT ![t] =
                   [op |-> "intersectionInfo", val |-> InfoOf(m, mesh[m], data[t], vs)]]
          /\ UNCHANGED <<mesh, accel, edits, fault, ray, data, sample>>
       \/ /\ TriReadFaults(mesh[m], data[t].id0)
          /\ Segfault(t, "intersectionInfo")

\* hitBackside(data).
HitBackside(t, m) ==
    /\ Running /\ mesh[m].alive
    /\ data[t].primitive = m
    /\ out' = [out EXCEPT ![t] = [op |-> "hitBackside", val |-> data[t].backSide]]
    /\ UNCHANGED <<mesh, accel, edits, fault, ray, data, sample>>

\* The result of tangentSpace over the vertices vs: T and B as numerators
\* over the common denominator invDet.
TangentOf(vs) ==
    LET q1 == Sub(vs[2].pos, vs[1].pos)
        q2 == Sub(vs[3].pos, vs[1].pos)
        s1 == vs[2].uv[1] - vs[1].uv[1]
        t1 == vs[2].uv[2] - vs[1].uv[2]
        s2 == vs[3].uv[1] - vs[1].uv[1]
        t2 == vs[3].uv[2] - vs[1].uv[2]
        invDet == s1 * t2 - s2 * t1
    IN  IF invDet = 0
        THEN [ok |-> FALSE, T |-> <<0, 0, 0>>, B |-> <<0, 0, 0>>, den |-> 1]
        ELSE [ok |-> TRUE, T |-> Sub(Scale(t2, q1), Scale(t1, q2)),
              B |-> Sub(Scale(s1, q2), Scale(s2, q1)), den |-> invDet]

\* tangentSpace(data, info, T, B).
TangentSpace(t, m) ==
    /\ Running /\ mesh[m].alive
    /\ data[t].primitive = m
    /\ \/ /\ \E vs \in TriReads(mesh[m], data[t].id0) :
                out' = [out EXCEPT ![t] = [op |-> "tangentSpace", val |-> TangentOf(vs)]]
          /\ UNCHANGED <<mesh, accel, edits, fault, ray, data, sample>>
       \/ /\ TriReadFaults(mesh[m], data[t].id0)
          /\ Segfault(t, "tangentSpace")

\* The values a read of _totalArea can give.
AreaValues(o) == IF o.totalArea = Indeterminate THEN {0, 1} ELSE {o.totalArea}

\* area().
Area(t, m) ==
    /\ Running /\ mesh[m].alive
    /\ \E a \in AreaValues(mesh[m]) : out' = [out EXCEPT ![t] = [op |-> "area", val |-> a]]
    /\ UNCHANGED <<mesh, accel, edits, fault, ray, data, sample>>

\* isSamplable().
IsSamplable(t, m) ==
    /\ Running /\ mesh[m].alive
    /\ out' = [out EXCEPT ![t] = [op |-> "isSamplable", val |-> mesh[m].triSampler.present]]
    /\ UNCHANGED <<mesh, accel, edits, fault, ray, data, sample>>

\* num / den, times the irrational factor: sqrt(unit) or 1/pi.
Quotient(num, den, unit, scale) ==
    IF den = 0
    THEN [kind |-> IF num = 0 THEN "nan" ELSE "inf", num |-> num, den |-> 0,
          unit |-> unit, scale |-> scale]
    ELSE [kind |-> "fin", num |-> num, den |-> den, unit |-> unit, scale |-> scale]

NaNPdf == [kind |-> "nan", num |-> 0, den |-> 0, unit |-> 1, scale |-> "sqrt"]

\* (p - isect->p).lengthSq()/(-d.dot(isect->Ng.normalized())*_totalArea)
\* for d = step/|step| and the doubled area a2.
InboundPdfOf(isect, p, step, a2) ==
    LET n == Normalized(isect.Ng)
    IN  IF n.nan \/ step = <<0, 0, 0>> THEN NaNPdf
        ELSE Quotient(2 * LengthSq(Sub(p, isect.p)), (-Dot(step, n.v)) * a2,
                      LengthSq(step), "sqrt")

\* inboundPdf(data, p, d), called with the ray's origin and direction.
InboundPdf(t, m) ==
    /\ Running /\ mesh[m].alive
    /\ data[t].primitive = m
    /\ \E a \in AreaValues(mesh[m]) :
          out' = [out EXCEPT ![t] =
             [op |-> "inboundPdf", val |-> InboundPdfOf(data[t], ray[t].org, ray[t].step, a)]]
    /\ UNCHANGED <<mesh, accel, edits, fault, ray, data, sample>>

\* Distribution1D::warp: the indices a draw can select.
WarpChoices(weights) ==
    IF SumSeq(weights) > 0
    THEN {i - 1 : i \in {j \in 1..Len(weights) : weights[j] > 0}}
    ELSE {i - 1 : i \in 1..Len(weights)}

\* Sample::uniformTriangle: the point with barycentric weights b.
UniformTriangle(b, p0, p1, p2) == Add(Add(Scale(b[1], p0), Scale(b[2], p1)), Scale(b[3], p2))

\* The test that rejects a sample facing away.
Rejected(cos) == ~cos.nan /\ cos.c <= 0

\* The LightSample sampleInboundDirection leaves for reference point p,
\* triangle idx with vertices vs, barycentric draw b and doubled area a2.
InboundSampleOf(old, p, idx, vs, b, a2) ==
    LET p0 == vs[1].pos
        p1 == vs[2].pos
        p2 == vs[3].pos
        normal == Normalized(Cross(Sub(p1, p0), Sub(p2, p0)))
        q == UniformTriangle(b, p0, p1, p2)
        L == Sub(q, p)
        rSq == LengthSq(L)
        d == IF rSq = 0 THEN NaNVec ELSE Fin(L)
        cos == IF normal.nan \/ d.nan THEN [nan |-> TRUE, c |-> 0]
               ELSE [nan |-> FALSE, c |-> -Dot(normal.v, L)]
        ok == ~Rejected(cos)
    IN  [p |-> p, d |-> d, distSq |-> rSq,
         pdf |-> IF ~ok THEN old.pdf
                 ELSE IF cos.nan THEN NaNPdf
                 ELSE Quotient(2 * rSq, cos.c * a2, rSq, "sqrt"),
         op |-> "sampleInboundDirection", ok |-> ok, tri |-> idx, cos |-> cos, area |-> a2]

\* sampleInboundDirection(sample): reference point p, the sampler drawing
\* triangle idx and barycentric weights b.
SampleInboundDirection(t, m, p, idx, b) ==
    /\ Running /\ mesh[m].alive
    /\ LET o == mesh[m]
       IN  IF ~o.triSampler.present \/ o.triSampler.weights = <<>>
           THEN Segfault(t, "sampleInboundDirection")
           ELSE /\ idx \in WarpChoices(o.triSampler.weights)
                /\ \/ /\ \E vs \in TriReads(o, idx) : \E a \in AreaValues(o) :
                            LET s == InboundSampleOf(sample[t], p, idx, vs, b, a)
                            IN  /\ sample' = [sample EXCEPT ![t] = s]
                                /\ out' = [out EXCEPT ![t] =
                                      [op |-> "sampleInboundDirection", val |-> s.ok]]
                      /\ UNCHANGED <<mesh, accel, edits, fault, ray, data>>
                   \/ /\ TriReadFaults(o, idx)
                      /\ Segfault(t, "sampleInboundDirection")

\* TangentFrame(normal).toGlobal(d) for a normal along the z axis.
ToGlobal(normal, d) ==
    IF normal.nan THEN NaNVec
    ELSE LET T == <<1, 0, 0>>
             B == Cross(normal.v, T)
         IN  Fin(Add(Add(Scale(d[1], T), Scale(d[2], B)), Scale(d[3], normal.v)))

\* The LightSample sampleOutboundDirection leaves: the point drawn with b,
\* the hemisphere direction d (local frame, d[3] its cosine), and
\* pdf = cosineHemispherePdf(d)/_totalArea = (d[3]/pi)/_totalArea.
OutboundSampleOf(idx, vs, b, d, a2) ==
    LET p0 == vs[1].pos
        p1 == vs[2].pos
        p2 == vs[3].pos
        normal == Normalized(Cross(Sub(p1, p0), Sub(p2, p0)))
    IN  [p |-> UniformTriangle(b, p0, p1, p2), d |-> ToGlobal(normal, d), distSq |-> 0,
         pdf |-> Quotient(2 * d[3], a2, 1, "invpi"),
         op |-> "sampleOutboundDirection", ok |-> TRUE, tri |-> idx,
         cos |-> [nan |-> FALSE, c |-> d[3]], area |-> a2]

\* sampleOutboundDirection(sample): the sampler drawing triangle idx,
\* barycentric weights b and hemisphere direction d.
SampleOutboundDirection(t, m, idx, b, d) ==
    /\ Running /\ mesh[m].alive
    /\ LET o == mesh[m]
       IN  IF ~o.triSampler.present \/ o.triSampler.weights = <<>>
           THEN Segfault(t, "sampleOutboundDirection")
           ELSE /\ idx \in WarpChoices(o.triSampler.weights)
                /\ \/ /\ \E vs \in TriReads(o, idx) : \E a \in AreaValues(o) :
                            LET s == OutboundSampleOf(idx, vs, b, d, a)
                            IN  /\ sample' = [sample EXCEPT ![t] = s]
                                /\ out' = [out EXCEPT ![t] =
                                      [op |-> "sampleOutboundDirection", val |-> TRUE]]
                      /\ UNCHANGED <<mesh, accel, edits, fault, ray, data>>
                   \/ /\ TriReadFaults(o, idx)
                      /\ Segfault(t, "sampleOutboundDirection")

(* --------------------------- specifications --------------------------- *)

\* Reference points and ray origins: above the mesh plane and on it.
RefPoints == {<<0, 0, 1>>, <<0, 0, 0>>}

\* Points rays are aimed at.
Targets == {<<0, 0, 0>>, <<1, 0, 0>>}

\* Barycentric (u, v) the oracle reports.
Barys == {<<0, 0>>, <<1, 0>>}

\* Barycentric weights the triangle warp returns.
CornerBary == {<<1, 0, 0>>, <<0, 1, 0>>}

\* Directions the cosine-hemisphere warp returns (local frame).
HemiDirs == {<<0, 0, 1>>, <<1, 0, 0>>}

\* Every index of every triangle names a vertex of an array of n entries.
IndicesBelow(o, n) == \A i \in TriIndices(o.tris) : i < n

\* Scene editing by a caller that keeps the documented preconditions:
\* prepareForRender on a mesh whose indices are valid, makeSamplable on a
\* prepared mesh; mutation through the accessors at any time.
Next ==
    \/ IndicesBelow(mesh[1], Len(mesh[1].verts)) /\ PrepareForRender(1)
    \/ CleanupAfterRender(1)
    \/ mesh[1].prepared /\ IndicesBelow(mesh[1], Len(mesh[1].tfVerts)) /\ MakeSamplable(1)
    \/ \E v \in VertexPool : VertsPushBack(1, v)
    \/ VertsPopBack(1)
    \/ \E i \in 1..MaxVerts, v \in VertexPool : VertsAssign(1, i, v)
    \/ \E t \in TriPool : TrisPushBack(1, t)
    \/ TrisPopBack(1)
    \/ \E s \in 1..MaxScale : SetTransform(1, s)

Spec == Init /\ [][Next]_vars

\* Copying: a mesh and its clone, each going through the lifecycle.
NextClone ==
    \/ Clone(1, 2)
    \/ \E m \in MeshIds : PrepareForRender(m)
    \/ \E m \in MeshIds : CleanupAfterRender(m)
    \/ \E m \in MeshIds : MakeSamplable(m)
    \/ \E m \in MeshIds, b \in BOOLEAN : SetSmoothed(m, b)
    \/ \E m \in MeshIds : MarkDirty(m)

SpecClone == Init /\ [][NextClone]_vars

\* The geometry queries thread t makes of mesh 1, the ray and the oracle's
\* answers drawn from the given sets.
GeometryQueries(t, orgs, targets, tfars, barys) ==
    \/ \E org \in orgs, target \in targets : sample[t] = NoSample /\ NewRay(t, org, target)
    \/ Return(t)
    \/ \E eRay \in Responses(tfars, barys) : Intersect(t, 1, eRay)
    \/ \E b \in BOOLEAN : Occluded(t, 1, b)
    \/ IntersectionInfo(t, 1)
    \/ HitBackside(t, 1)
    \/ TangentSpace(t, 1)
    \/ InboundPdf(t, 1)
    \/ Area(t, 1)
    \/ IsSamplable(t, 1)

\* The sampling queries thread t makes of mesh 1 as an area light, the
\* reference points and the sampler's draws taken from the given sets.
LightQueries(t, refs, corners, hemis) ==
    \/ \E p \in refs, idx \in 0..(MaxTris - 1), b \in corners :
          ray[t] = NoRay /\ SampleInboundDirection(t, 1, p, idx, b)
    \/ \E idx \in 0..(MaxTris - 1), b \in corners, d \in hemis :
          ray[t] = NoRay /\ SampleOutboundDirection(t, 1, idx, b, d)

TwoSided == Ctor(<<V0, V1, V2>>, << <<0, 1, 2>>, <<0, 2, 1>> >>, "mesh", TRUE)

Degenerate == Ctor(<<V0, V1, V2>>, << <<0, 0, 0>> >>, "mesh", FALSE)

\* A two-sided mesh (one triangle of each winding) and a degenerate one.
InitCall == Init /\ mesh[1] \in {TwoSided, Degenerate}

\* One caller making lifecycle calls and queries in any order, whether or
\* not their preconditions hold.
NextCall ==
    \/ PrepareForRender(1)
    \/ CleanupAfterRender(1)
    \/ MakeSamplable(1)
    \/ GeometryQueries(1, RefPoints, Targets, 1..MaxT, Barys)
    \/ LightQueries(1, RefPoints, CornerBary, HemiDirs)
    \/ ShadowRay(1)

SpecCall == InitCall /\ [][NextCall]_vars

\* No caller holds a ray, record, sample or result.
Idle == \A t \in Threads : <<ray[t], data[t], sample[t], out[t]>> = <<NoRay, NoData, NoSample, NoOut>>

\* One caller that keeps every documented precondition: queries only
\* between prepareForRender and cleanupAfterRender, sampling only once
\* makeSamplable has run in this render.
NextRender ==
    \/ ~mesh[1].prepared /\ PrepareForRender(1)
    \/ mesh[1].prepared /\ Idle /\ CleanupAfterRender(1)
    \/ mesh[1].prepared /\ Idle /\ MakeSamplable(1)
    \/ mesh[1].prepared /\ GeometryQueries(1, RefPoints, Targets, 1..MaxT, Barys)
    \/ /\ mesh[1].prepared
       /\ mesh[1].triSampler.present
       /\ LightQueries(1, RefPoints, CornerBary, HemiDirs)
    \/ mesh[1].prepared /\ ShadowRay(1)

SpecRender == InitCall /\ [][NextRender]_vars

InitQuery == Init /\ mesh[1] = TwoSided

\* The rendering phase: the setup thread prepares the mesh once, then the
\* transport threads query it concurrently.
NextQuery ==
    \/ ~mesh[1].prepared /\ PrepareForRender(1)
    \/ mesh[1].prepared /\ ~mesh[1].triSampler.present /\ MakeSamplable(1)
    \/ \E t \in Threads : GeometryQueries(t, {<<0, 0, 1>>}, {<<0, 0, 0>>}, {1}, {<<0, 0>>})
    \/ \E t \in Threads : LightQueries(t, {<<0, 0, 1>>}, {<<1, 0, 0>>}, {<<0, 0, 1>>})

SpecQuery == InitQuery /\ [][NextQuery]_vars

(* ------------------------------- claims ------------------------------- *)

\* The transformed-vertex cache of o holds one entry per vertex, each the
\* world-space image of that vertex.
CacheValid(o) ==
    /\ Len(o.tfVerts) = Len(o.verts)
    /\ \A i \in 1..Len(o.verts) : o.tfVerts[i] = TransformVertex(o.transform, o.verts[i])

\* C1: after any sequence of prepareForRender, cleanupAfterRender,
\* makeSamplable and mutation through verts()/tris(), the transformed-vertex
\* cache is valid if and only if the mesh is Prepared: a Prepared mesh has a
\* valid cache, and an Unprepared mesh has no cache.
C1_CacheValidIffPrepared ==
    \A m \in MeshIds : mesh[m].alive =>
        /\ mesh[m].prepared => CacheValid(mesh[m])
        /\ ~mesh[m].prepared => mesh[m].tfVerts = <<>>

\* C2: every acceleration-structure handle acquired by prepareForRender is
\* released exactly once by a later cleanupAfterRender: no handle is released
\* twice, and once cleanupAfterRender has run (the mesh is Unprepared) no
\* handle the mesh acquired remains unreleased.
C2_HandlesReleasedOnce ==
    /\ \A h \in Handles : accel[h].deleted <= 1
    /\ \A m \in MeshIds : (mesh[m].alive /\ ~mesh[m].prepared) =>
          \A h \in Handles : accel[h].owner = m => accel[h].deleted = 1

\* Thread t calls an operation of mesh 1 whose precondition does not hold:
\* a query or makeSamplable while the mesh is not Prepared, or a sampling
\* operation before makeSamplable.
ViolatingCall(t) ==
    \/ /\ ~mesh[1].prepared
       /\ \/ \E e \in Responses(1..MaxT, Barys) : Intersect(t, 1, e)
          \/ \E b \in BOOLEAN : Occluded(t, 1, b)
          \/ MakeSamplable(1)
    \/ /\ ~mesh[1].prepared \/ ~mesh[1].triSampler.present
       /\ \/ \E p \in RefPoints, idx \in 0..(MaxTris - 1), b \in CornerBary :
                SampleInboundDirection(t, 1, p, idx, b)
          \/ \E idx \in 0..(MaxTris - 1), b \in CornerBary, d \in HemiDirs :
                SampleOutboundDirection(t, 1, idx, b, d)

\* C3: a precondition violation ends in an explicit abort: it neither
\* returns normally nor dies reading a missing intersector, sampler or
\* cache entry.
C3_ViolationsAbort ==
    [][\A t \in Threads : ViolatingCall(t) => fault' = "abort"]_vars

\* C4: in every reachable state where isSamplable() is true, the sum of the
\* Area Distribution's weights equals the cached total area.
C4_WeightsSumToArea ==
    \A m \in MeshIds : (mesh[m].alive /\ mesh[m].triSampler.present) =>
        SumSeq(mesh[m].triSampler.weights) = mesh[m].totalArea

\* Two pdf values are the same number.
PdfEq(a, b) ==
    /\ a.kind = "fin" /\ b.kind = "fin"
    /\ a.unit = b.unit /\ a.scale = b.scale
    /\ a.num * b.den = b.num * a.den

\* Thread t drew a successful inbound sample on triangle sample[t].tri,
\* traced the ray from the reference point along the sampled direction,
\* intersect() reported the sampled point on that triangle, and inboundPdf
\* was then called on that record with the same point and direction, the
\* cached area being the one the sample was drawn with.
RoundTrip(t) ==
    /\ sample[t].op = "sampleInboundDirection" /\ sample[t].ok /\ ~sample[t].d.nan
    /\ ray[t].org = sample[t].p /\ ray[t].step = sample[t].d.v
    /\ data[t].primitive = 1
    /\ data[t].id0 = sample[t].tri
    /\ data[t].p = Add(sample[t].p, sample[t].d.v)
    /\ out[t].op = "inboundPdf"
    /\ mesh[1].totalArea = sample[t].area

\* C5: round trip: inboundPdf on the realised hit of a successful inbound
\* sample returns the pdf the sample carries, with the same sign.
C5_RoundTripPdf ==
    \A t \in Threads : RoundTrip(t) => PdfEq(out[t].val, sample[t].pdf)

\* C6: a sampling call that returns success carries a pdf computed with
\* cosTheta > 0 and totalArea > 0.
C6_SuccessIsNonDegenerate ==
    \A t \in Threads : (sample[t].op # "none" /\ sample[t].ok) =>
        /\ ~sample[t].cos.nan
        /\ sample[t].cos.c > 0
        /\ sample[t].area > 0

\* C7: over any sequence of intersect calls on a ray the far bound never
\* increases; a call returns true only when the oracle reports a hit
\* strictly closer than the far bound, which then becomes the hit distance,
\* and fills the record; a call that returns false leaves far bound and
\* record unchanged.
C7_FarBoundShrinks ==
    [][\A t \in Threads : \A e \in Responses(1..MaxT, Barys) :
          (Intersect(t, 1, e) /\ fault' = "none") =>
              /\ ray'[t].farT <= ray[t].farT
              /\ out'[t].val = TRUE =>
                    /\ e.hit /\ e.tfar < ray[t].farT
                    /\ ray'[t].farT = e.tfar
                    /\ data'[t].primitive = 1 /\ data'[t].id0 = e.id0
                    /\ data'[t].u = e.u /\ data'[t].v = e.v
                    /\ data'[t].p = Add(ray[t].org, Scale(e.tfar, ray[t].step))
              /\ out'[t].val = FALSE => (ray'[t] = ray[t] /\ data'[t] = data[t])]_vars

\* C7 witness: an intersect call returned false on a ray whose far bound
\* an earlier hit had shrunk to 1, the record still holding that hit.
C7_Witness ==
    /\ out[1] = [op |-> "intersect", val |-> FALSE]
    /\ data[1].primitive = 1
    /\ ray[1].farT = 1
    /\ data[1].p = Add(ray[1].org, ray[1].step)

\* Thread t makes one of the ten query operations of mesh 1.
QueryStep(t) ==
    \/ \E e \in Responses(1..MaxT, Barys) : Intersect(t, 1, e)
    \/ \E b \in BOOLEAN : Occluded(t, 1, b)
    \/ IntersectionInfo(t, 1)
    \/ HitBackside(t, 1)
    \/ TangentSpace(t, 1)
    \/ Area(t, 1)
    \/ IsSamplable(t, 1)
    \/ InboundPdf(t, 1)
    \/ \E p \in RefPoints, idx \in 0..(MaxTris - 1), b \in CornerBary :
          SampleInboundDirection(t, 1, p, idx, b)
    \/ \E idx \in 0..(MaxTris - 1), b \in CornerBary, d \in HemiDirs :
          SampleOutboundDirection(t, 1, idx, b, d)

\* C8: no query operation changes any mesh state or the oracle's geometry;
\* a query of thread t writes only thread t's ray, record, sample and
\* result, so the other threads' queries see what they would see alone.
C8_QueriesAreReadOnly ==
    [][\A t \in Threads : QueryStep(t) =>
          /\ mesh' = mesh
          /\ accel' = accel
          /\ \A u \in Threads \ {t} :
                <<ray'[u], data'[u], sample'[u], out'[u]>> = <<ray[u], data[u], sample[u], out[u]>>]_vars

\* C8 witness: on a prepared, samplable mesh one thread holds a hit while
\* the other holds a successful light sample.
C8_Witness ==
    /\ mesh[1].prepared /\ mesh[1].triSampler.present
    /\ out[1] = [op |-> "intersect", val |-> TRUE]
    /\ data[1].primitive = 1
    /\ out[2].op = "sampleInboundDirection"
    /\ sample[2].ok

\* C9: all three vertex indices of every triangle are smaller than the
\* vertex count, in every reachable state.
C9_IndicesInRange ==
    \A m \in MeshIds : mesh[m].alive => IndicesBelow(mesh[m], Len(mesh[m].verts))

\* C10: clone() yields an Unprepared, non-samplable mesh with the original's
\* vertices, triangles, smoothing flag and path, its dirty flag set, null
\* oracle handles and an empty cache, and leaves the original and the
\* oracle unchanged; the two meshes never hold the same handle, and
\* cleanupAfterRender on the clone releases none of the original's handles.
C10_CloneIsFresh ==
    /\ [][Clone(1, 2) =>
             /\ mesh'[2].alive
             /\ mesh'[2].verts = mesh[1].verts /\ mesh'[2].tris = mesh[1].tris
             /\ mesh'[2].smoothed = mesh[1].smoothed /\ mesh'[2].path = mesh[1].path
             /\ mesh'[2].dirty
             /\ mesh'[2].geom = Null /\ mesh'[2].intersector = Null
             /\ mesh'[2].tfVerts = <<>>
             /\ ~mesh'[2].triSampler.present
             /\ ~mesh'[2].prepared
             /\ mesh'[1] = mesh[1]
             /\ accel' = accel]_vars
    /\ [][CleanupAfterRender(2) =>
             \A h \in Handles : accel[h].owner = 1 => accel'[h] = accel[h]]_vars
    /\ [](mesh[1].geom # Null => mesh[1].geom # mesh[2].geom)

\* C10 witness: the clone of a prepared original has itself been prepared
\* and cleaned up while the original still holds its live handle.
C10_Witness ==
    /\ mesh[2].alive
    /\ mesh[1].prepared /\ mesh[1].geom # Null
    /\ accel[mesh[1].geom].deleted = 0
    /\ \E h \in Handles : accel[h].owner = 2 /\ accel[h].deleted = 1

====
